---- MODULE Spec2Model ----
(***************************************************************************)
(* Track controller firmware (nodes/tracks/firmware/main.cpp): the serial  *)
(* line assembler, the command interpreter with differential-drive mixing  *)
(* and the heartbeat watchdog of the control loop in main().               *)
(*                                                                         *)
(* Time is in microseconds, as read by get_absolute_time().  Strings are   *)
(* sequences of one-character strings.  A float is a fixed-point integer   *)
(* in units of 1/Frac; the host lines of the model only carry values that  *)
(* both a C float and this representation hold exactly, so the arithmetic  *)
(* below equals the float arithmetic of the firmware on them.              *)
(***************************************************************************)
EXTENDS Integers, Sequences, FiniteSets, TLC

(***************************************************************************)
(* Program constants                                                       *)
(***************************************************************************)
PWM_WRAP_VALUE == 1000

HEARTBEAT_TIMEOUT_US == 3000000

\* sizeof(serial_cmd_buf): char serial_cmd_buf[64]
SERIAL_CMD_BUF_SIZE == 64

\* the largest buf_index at which a byte is still stored: sizeof(buf) - 1
LINE_MAX == SERIAL_CMD_BUF_SIZE - 1

\* the literal 10 of "mix * 10"
DUTY_SCALE == 10

\* the range of int, the target type of the (int) conversions
INT_MAX == 2147483647

INT_MIN == -INT_MAX - 1

(***************************************************************************)
(* Bounds of the model                                                     *)
(***************************************************************************)
\* the clock stops advancing here
MaxClock == 9000000

\* a float is represented by the integer number of its 1/Frac parts
Frac == 4

\* bytes by which the over-long host line exceeds LINE_MAX
OverflowExtra == 5

\* lines the host writes to the feedback variant
MaxLines == 3

\* time that may pass between two consecutive clock-reading points of the loop
ClockSteps == {0, HEARTBEAT_TIMEOUT_US \div 2}

(***************************************************************************)
(* Characters and host lines                                               *)
(***************************************************************************)
LF == "\n"

CR == "\r"

Terminators == {LF, CR}

Digits == {"0", "1", "2", "3", "4", "5", "6", "7", "8", "9"}

DigitVal(c) ==
  CASE c = "0" -> 0 [] c = "1" -> 1 [] c = "2" -> 2 [] c = "3" -> 3
    [] c = "4" -> 4 [] c = "5" -> 5 [] c = "6" -> 6 [] c = "7" -> 7
    [] c = "8" -> 8 [] c = "9" -> 9

HEARTBEAT_STR == <<"h", "e", "a", "r", "t", "b", "e", "a", "t">>

MOVE_PREFIX == <<"m", "o", "v", "e", " ">>

Move_50_0 == MOVE_PREFIX \o <<"5", "0", " ", "0">>

Move_0_50 == MOVE_PREFIX \o <<"0", " ", "5", "0">>

Move_m90_20 == MOVE_PREFIX \o <<"-", "9", "0", " ", "2", "0">>

Move_quarter == MOVE_PREFIX \o <<"0", ".", "2", "5", " ", "0">>

Move_huge == MOVE_PREFIX \o <<"3", "0", "0", "0", "0", "0", "0", "0", "0", " ", "0">>

Move_abc_1 == MOVE_PREFIX \o <<"a", "b", "c", " ", "1">>

Move_one_token == MOVE_PREFIX \o <<"5">>

Stop_line == <<"s", "t", "o", "p">>

Long_line == [i \in 1..(LINE_MAX + OverflowExtra) |-> "x"]

\* the lines the host may send (each is followed by one terminator byte);
\* the empty line stands for a blank line / the second byte of a CR LF pair
HostLines ==
  { <<>>, HEARTBEAT_STR, Move_50_0, Move_0_50, Move_m90_20, Move_quarter,
    Move_huge, Move_abc_1, Move_one_token, Stop_line, Long_line }

(***************************************************************************)
(* sscanf(cmd + 5, "%f %f", &linear, &angular)                             *)
(***************************************************************************)
\* the suffix of s from position i on (cmd + 5 is Drop(cmd, 5))
Drop(s, n) == SubSeq(s, n + 1, Len(s))

\* white space skipped by a conversion and matched by the blank of the format
RECURSIVE SkipSpace(_)
SkipSpace(s) ==
  IF s # <<>> /\ Head(s) \in {" ", "\t", LF, CR}
    THEN SkipSpace(Tail(s))
    ELSE s

\* the longest prefix of s made of decimal digits
RECURSIVE DigitPrefix(_)
DigitPrefix(s) ==
  IF s # <<>> /\ Head(s) \in Digits
    THEN <<Head(s)>> \o DigitPrefix(Tail(s))
    ELSE <<>>

\* the number a digit string denotes
RECURSIVE DecValue(_)
DecValue(ds) ==
  IF ds = <<>> THEN 0
  ELSE DecValue(SubSeq(ds, 1, Len(ds) - 1)) * 10 + DigitVal(ds[Len(ds)])

\* the digits after the decimal point (hundredths), in units of 1/Frac
FracValue(ds) ==
  (DecValue([i \in 1..2 |-> IF i <= Len(ds) THEN ds[i] ELSE "0"]) * Frac) \div 100

\* one %f conversion on s: white space, an optional sign, digits with an
\* optional decimal point; it fails when no digit is found (the exponent
\* form is added by ScanFloatExp; the hexadecimal, "inf" and "nan" forms do
\* not occur in the lines the host sends)
ScanFloat(s) ==
  LET s0    == SkipSpace(s)
      neg   == s0 # <<>> /\ Head(s0) = "-"
      s1    == IF s0 # <<>> /\ Head(s0) \in {"+", "-"} THEN Tail(s0) ELSE s0
      intd  == DigitPrefix(s1)
      s2    == Drop(s1, Len(intd))
      dot   == s2 # <<>> /\ Head(s2) = "."
      fracd == IF dot THEN DigitPrefix(Tail(s2)) ELSE <<>>
      s3    == IF dot THEN Drop(s2, 1 + Len(fracd)) ELSE s2
      mag   == DecValue(intd) * Frac + FracValue(fracd)
  IN  IF Len(intd) + Len(fracd) = 0
        THEN [ok |-> FALSE, val |-> 0, rest |-> s]
        ELSE [ok |-> TRUE, val |-> IF neg THEN -mag ELSE mag, rest |-> s3]

\* the return value of sscanf and the two floats it stores (initialised 0.0f)
sscanf_move(payload) ==
  LET a == ScanFloat(payload)
      b == ScanFloat(a.rest)
  IN  IF ~a.ok THEN [n |-> 0, linear |-> 0, angular |-> 0]
      ELSE IF ~b.ok THEN [n |-> 1, linear |-> a.val, angular |-> 0]
      ELSE [n |-> 2, linear |-> a.val, angular |-> b.val]

(***************************************************************************)
(* Differential drive mixing, direction and duty                           *)
(***************************************************************************)
clamp_pwm_duty_unbounded(duty) ==
  IF duty < 0 THEN 0 ELSE duty

clamp_pwm_duty(duty) ==
  IF duty < 0 THEN 0
  ELSE IF duty > PWM_WRAP_VALUE THEN PWM_WRAP_VALUE
  ELSE duty

left_mix_swapped(linear, angular) == linear + angular

left_mix(linear, angular) == linear - angular

right_mix(linear, angular) == linear + angular

\* (int)(m * 10) for a float m >= 0 given in units of 1/Frac: truncation
\* toward zero; a product that int cannot hold is undefined behaviour, which
\* compilers resolve by saturating or by the "integer indefinite" INT_MIN
scaled_to_int(m) ==
  IF m \div Frac > INT_MAX \div DUTY_SCALE
    THEN {INT_MAX, INT_MIN}
    ELSE {(m * DUTY_SCALE) \div Frac}

\* the level of the direction pin: 1 (forward) for a negative mix
track_dir(mix) == IF mix < 0 THEN 1 ELSE 0

\* the duties clamp_pwm_duty((int)(+-mix * 10)) can produce
track_duty(mix) ==
  IF mix < 0
    THEN {clamp_pwm_duty(i) : i \in scaled_to_int(-mix)}
    ELSE {clamp_pwm_duty(i) : i \in scaled_to_int(mix)}

(***************************************************************************)
(* State                                                                   *)
(***************************************************************************)
VARIABLES
  pc,                \* position in the loop body: "poll" or "check"
  now,               \* the monotonic clock
  rx,                \* bytes the host has sent and the loop has not polled
  serial_cmd_buf,    \* the first buf_index bytes of the line buffer
  buf_index,
  last_heartbeat,
  heartbeat_warned,
  left_duty,         \* PWM channel levels
  right_duty,
  left_dir,          \* direction pin levels
  right_dir,
  out,               \* the diagnostic printed by the latest step
  polled,            \* history: the byte polled in the iteration under way
  run,               \* history: input bytes since the latest terminator
  overflowed,        \* history: an overflow was reported during this run
  handed,            \* history: the line process_command got in this iteration
  t_accepted,        \* history: time of boot or of the latest accepted command
  outage_diagnosed   \* history: "Heartbeat missing" printed since t_accepted

vars ==
  <<pc, now, rx, serial_cmd_buf, buf_index, last_heartbeat, heartbeat_warned,
    left_duty, right_duty, left_dir, right_dir, out, polled, run, overflowed,
    handed, t_accepted, outage_diagnosed>>

actuators == <<left_duty, right_duty, left_dir, right_dir>>

\* the state of the feedback variant (src/tracks/firmware/main.cpp)
VARIABLES
  stdin,             \* bytes the host has written and fgets has not read
  buffer,            \* the string fgets stored last
  pid_right,         \* the PID records
  pid_left,
  pwm_right,         \* PWM channel levels
  pwm_left,
  right_dir_pin,     \* direction pin levels
  left_dir_pin,
  scanned,           \* history: what sscanf returned and stored last
  lines_sent         \* history: number of lines the host has written

pid_vars ==
  <<stdin, buffer, pid_right, pid_left, pwm_right, pwm_left, right_dir_pin,
    left_dir_pin, scanned, lines_sent>>

all_vars == <<vars, pid_vars>>

NoLine ==
  [some |-> FALSE, line |-> <<>>, run |-> <<>>, t |-> 0, was_warned |-> FALSE]

(***************************************************************************)
(* Classification of a command line, as process_command branches on it     *)
(***************************************************************************)
IsHeartbeat(cmd) == cmd = HEARTBEAT_STR

IsMovePrefixed(cmd) == Len(cmd) >= 5 /\ SubSeq(cmd, 1, 5) = MOVE_PREFIX

IsMove(cmd) ==
  ~IsHeartbeat(cmd) /\ IsMovePrefixed(cmd) /\ sscanf_move(Drop(cmd, 5)).n = 2

IsParseError(cmd) ==
  ~IsHeartbeat(cmd) /\ IsMovePrefixed(cmd) /\ sscanf_move(Drop(cmd, 5)).n # 2

IsUnknown(cmd) == ~IsHeartbeat(cmd) /\ ~IsMovePrefixed(cmd)

\* an accepted command: exact heartbeat or well-formed move
Accepted(cmd) == IsHeartbeat(cmd) \/ IsMove(cmd)

(***************************************************************************)
(* process_command                                                         *)
(***************************************************************************)
\* strcmp(cmd, "heartbeat") == 0
cmd_heartbeat_stops(t) ==
  /\ last_heartbeat' = t
  /\ left_duty' = 0
  /\ right_duty' = 0
  /\ UNCHANGED <<left_dir, right_dir>>
  /\ out' = "none"

cmd_heartbeat(t) ==
  /\ last_heartbeat' = t
  /\ UNCHANGED actuators
  /\ out' = "none"

\* strncmp(cmd, "move ", 5) == 0
cmd_move(cmd, t) ==
  LET r == sscanf_move(Drop(cmd, 5))
      l == left_mix(r.linear, r.angular)
      m == right_mix(r.linear, r.angular)
  IN  /\ last_heartbeat' = t
      /\ IF r.n = 2
           THEN /\ left_dir' = track_dir(l)
                /\ right_dir' = track_dir(m)
                /\ left_duty' \in track_duty(l)
                /\ right_duty' \in track_duty(m)
                /\ out' = "none"
           ELSE /\ UNCHANGED actuators
                /\ out' = "parse_error"

cmd_unknown_stops ==
  /\ left_duty' = 0
  /\ right_duty' = 0
  /\ UNCHANGED <<last_heartbeat, left_dir, right_dir>>
  /\ out' = "unknown"

cmd_unknown ==
  /\ UNCHANGED <<last_heartbeat, actuators>>
  /\ out' = "unknown"

process_command(cmd, t) ==
  IF IsHeartbeat(cmd) THEN cmd_heartbeat(t)
  ELSE IF IsMovePrefixed(cmd) THEN cmd_move(cmd, t)
  ELSE cmd_unknown

(***************************************************************************)
(* The environment: the clock and the host                                 *)
(***************************************************************************)
\* time passes until the next point of the loop
Tick ==
  \E d \in ClockSteps :
    /\ now + d <= MaxClock
    /\ now' = now + d

\* the host writes one line and its terminator to the serial link
HostSend ==
  /\ rx = <<>>
  /\ \E m \in HostLines, term \in Terminators : rx' = Append(m, term)
  /\ UNCHANGED <<pc, now, serial_cmd_buf, buf_index, last_heartbeat,
                 heartbeat_warned, actuators, out, polled, run, overflowed,
                 handed, t_accepted, outage_diagnosed>>
  /\ UNCHANGED pid_vars

(***************************************************************************)
(* main: one loop iteration is a poll step followed by the heartbeat check *)
(***************************************************************************)
\* getchar_timeout_us(0) returns PICO_ERROR_TIMEOUT
PollTimeout_skips_check ==
  /\ pc = "poll"
  /\ Tick
  /\ pc' = "poll"
  /\ out' = "none"
  /\ polled' = "none"
  /\ handed' = NoLine
  /\ UNCHANGED <<rx, serial_cmd_buf, buf_index, last_heartbeat,
                 heartbeat_warned, actuators, run, overflowed, t_accepted,
                 outage_diagnosed>>
  /\ UNCHANGED pid_vars

PollTimeout ==
  /\ pc = "poll"
  /\ Tick
  /\ pc' = "check"
  /\ out' = "none"
  /\ polled' = "none"
  /\ handed' = NoLine
  /\ UNCHANGED <<rx, serial_cmd_buf, buf_index, last_heartbeat,
                 heartbeat_warned, actuators, run, overflowed, t_accepted,
                 outage_diagnosed>>
  /\ UNCHANGED pid_vars

\* a terminator with a non-empty buffer: the line is processed
PollLineComplete_keeps_warned ==
  /\ pc = "poll"
  /\ rx # <<>> /\ Head(rx) \in Terminators
  /\ buf_index > 0
  /\ Tick
  /\ rx' = Tail(rx)
  /\ polled' = Head(rx)
  /\ process_command(serial_cmd_buf, now')
  /\ buf_index' = 0
  /\ serial_cmd_buf' = <<>>
  /\ UNCHANGED heartbeat_warned
  /\ pc' = "check"
  /\ handed' = [some |-> TRUE, line |-> serial_cmd_buf, run |-> run,
                t |-> now', was_warned |-> heartbeat_warned]
  /\ run' = <<>>
  /\ overflowed' = FALSE
  /\ IF Accepted(serial_cmd_buf)
       THEN t_accepted' = now' /\ outage_diagnosed' = FALSE
       ELSE UNCHANGED <<t_accepted, outage_diagnosed>>
  /\ UNCHANGED pid_vars

PollLineComplete ==
  /\ pc = "poll"
  /\ rx # <<>> /\ Head(rx) \in Terminators
  /\ buf_index > 0
  /\ Tick
  /\ rx' = Tail(rx)
  /\ polled' = Head(rx)
  /\ process_command(serial_cmd_buf, now')
  /\ buf_index' = 0
  /\ serial_cmd_buf' = <<>>
  /\ heartbeat_warned' = FALSE
  /\ pc' = "check"
  /\ handed' = [some |-> TRUE, line |-> serial_cmd_buf, run |-> run,
                t |-> now', was_warned |-> heartbeat_warned]
  /\ run' = <<>>
  /\ overflowed' = FALSE
  /\ IF Accepted(serial_cmd_buf)
       THEN t_accepted' = now' /\ outage_diagnosed' = FALSE
       ELSE UNCHANGED <<t_accepted, outage_diagnosed>>
  /\ UNCHANGED pid_vars

\* a terminator with an empty buffer
PollBlankLine_clears_warned ==
  /\ pc = "poll"
  /\ rx # <<>> /\ Head(rx) \in Terminators
  /\ buf_index = 0
  /\ Tick
  /\ rx' = Tail(rx)
  /\ polled' = Head(rx)
  /\ heartbeat_warned' = FALSE
  /\ pc' = "check"
  /\ out' = "none"
  /\ handed' = NoLine
  /\ run' = <<>>
  /\ overflowed' = FALSE
  /\ UNCHANGED <<serial_cmd_buf, buf_index, last_heartbeat, actuators,
                 t_accepted, outage_diagnosed>>
  /\ UNCHANGED pid_vars

PollBlankLine ==
  /\ pc = "poll"
  /\ rx # <<>> /\ Head(rx) \in Terminators
  /\ buf_index = 0
  /\ Tick
  /\ rx' = Tail(rx)
  /\ polled' = Head(rx)
  /\ pc' = "check"
  /\ out' = "none"
  /\ handed' = NoLine
  /\ run' = <<>>
  /\ overflowed' = FALSE
  /\ UNCHANGED <<serial_cmd_buf, buf_index, last_heartbeat, heartbeat_warned,
                 actuators, t_accepted, outage_diagnosed>>
  /\ UNCHANGED pid_vars

\* any other byte while the buffer has room
PollAppend_unchecked ==
  /\ pc = "poll"
  /\ rx # <<>> /\ Head(rx) \notin Terminators
  /\ Tick
  /\ rx' = Tail(rx)
  /\ polled' = Head(rx)
  /\ serial_cmd_buf' = Append(serial_cmd_buf, Head(rx))
  /\ buf_index' = buf_index + 1
  /\ pc' = "check"
  /\ out' = "none"
  /\ handed' = NoLine
  /\ run' = Append(run, Head(rx))
  /\ UNCHANGED <<last_heartbeat, heartbeat_warned, actuators, overflowed,
                 t_accepted, outage_diagnosed>>
  /\ UNCHANGED pid_vars

PollAppend ==
  /\ pc = "poll"
  /\ rx # <<>> /\ Head(rx) \notin Terminators
  /\ buf_index < SERIAL_CMD_BUF_SIZE - 1
  /\ Tick
  /\ rx' = Tail(rx)
  /\ polled' = Head(rx)
  /\ serial_cmd_buf' = Append(serial_cmd_buf, Head(rx))
  /\ buf_index' = buf_index + 1
  /\ pc' = "check"
  /\ out' = "none"
  /\ handed' = NoLine
  /\ run' = Append(run, Head(rx))
  /\ UNCHANGED <<last_heartbeat, heartbeat_warned, actuators, overflowed,
                 t_accepted, outage_diagnosed>>
  /\ UNCHANGED pid_vars

\* any other byte while the buffer is full: discard and reset
PollOverflow ==
  /\ pc = "poll"
  /\ rx # <<>> /\ Head(rx) \notin Terminators
  /\ ~(buf_index < SERIAL_CMD_BUF_SIZE - 1)
  /\ Tick
  /\ rx' = Tail(rx)
  /\ polled' = Head(rx)
  /\ serial_cmd_buf' = <<>>
  /\ buf_index' = 0
  /\ pc' = "check"
  /\ out' = "overflow"
  /\ handed' = NoLine
  /\ run' = Append(run, Head(rx))
  /\ overflowed' = TRUE
  /\ UNCHANGED <<last_heartbeat, heartbeat_warned, actuators, t_accepted,
                 outage_diagnosed>>
  /\ UNCHANGED pid_vars

\* absolute_time_diff_us(last_heartbeat, get_absolute_time())
absolute_time_diff_us(from, to) == to - from

TimedOut_inverted(t) ==
  absolute_time_diff_us(last_heartbeat, t) <= HEARTBEAT_TIMEOUT_US

TimedOut_swapped(t) ==
  absolute_time_diff_us(t, last_heartbeat) > HEARTBEAT_TIMEOUT_US

TimedOut_nonstrict(t) ==
  absolute_time_diff_us(last_heartbeat, t) >= HEARTBEAT_TIMEOUT_US

TimedOut(t) ==
  absolute_time_diff_us(last_heartbeat, t) > HEARTBEAT_TIMEOUT_US

\* the heartbeat check that ends every iteration
HeartbeatCheck_resets_dir ==
  /\ pc = "check"
  /\ Tick
  /\ IF TimedOut(now') /\ ~heartbeat_warned
       THEN /\ left_duty' = 0
            /\ right_duty' = 0
            /\ left_dir' = 0
            /\ right_dir' = 0
            /\ heartbeat_warned' = TRUE
            /\ out' = "hb_missing"
            /\ outage_diagnosed' = TRUE
       ELSE /\ out' = "none"
            /\ UNCHANGED <<heartbeat_warned, actuators, outage_diagnosed>>
  /\ pc' = "poll"
  /\ polled' = "none"
  /\ UNCHANGED <<rx, serial_cmd_buf, buf_index, last_heartbeat, run,
                 overflowed, handed, t_accepted>>
  /\ UNCHANGED pid_vars

HeartbeatCheck ==
  /\ pc = "check"
  /\ Tick
  /\ IF TimedOut(now') /\ ~heartbeat_warned
       THEN /\ left_duty' = 0
            /\ right_duty' = 0
            /\ heartbeat_warned' = TRUE
            /\ out' = "hb_missing"
            /\ outage_diagnosed' = TRUE
            /\ UNCHANGED <<left_dir, right_dir>>
       ELSE /\ out' = "none"
            /\ UNCHANGED <<heartbeat_warned, actuators, outage_diagnosed>>
  /\ pc' = "poll"
  /\ polled' = "none"
  /\ UNCHANGED <<rx, serial_cmd_buf, buf_index, last_heartbeat, run,
                 overflowed, handed, t_accepted>>
  /\ UNCHANGED pid_vars

(***************************************************************************)
(* The feedback variant (src/tracks/firmware/main.cpp): floats             *)
(***************************************************************************)
\* a float is a finite value (in units of 1/Frac), an infinity or a NaN
Fin(v) == [cls |-> "fin", v |-> v]

Inf(sign) == [cls |-> "inf", v |-> sign]

NaN == [cls |-> "nan", v |-> 0]

\* what an invalid operation (0 * inf, inf - inf) may give: IEEE 754 says
\* NaN; float routines that have no NaN give an infinity
Invalid == {NaN, Inf(1), Inf(-1)}

Sgn(n) == IF n < 0 THEN -1 ELSE IF n > 0 THEN 1 ELSE 0

\* integer division rounding toward zero
TruncDiv(n, d) == IF n < 0 THEN -((-n) \div d) ELSE n \div d

f_neg(a) == IF a.cls = "nan" THEN a ELSE [cls |-> a.cls, v |-> -a.v]

f_add(a, b, invalid) ==
  IF a.cls = "nan" \/ b.cls = "nan" THEN NaN
  ELSE IF a.cls = "inf" /\ b.cls = "inf"
    THEN (IF a.v = b.v THEN a ELSE invalid)
  ELSE IF a.cls = "inf" THEN a
  ELSE IF b.cls = "inf" THEN b
  ELSE Fin(a.v + b.v)

f_sub(a, b, invalid) == f_add(a, f_neg(b), invalid)

f_mul(a, b, invalid) ==
  IF a.cls = "nan" \/ b.cls = "nan" THEN NaN
  ELSE IF a.cls = "inf" \/ b.cls = "inf"
    THEN (IF Sgn(a.v) * Sgn(b.v) = 0
            THEN invalid
            ELSE Inf(Sgn(a.v) * Sgn(b.v)))
  ELSE Fin(TruncDiv(a.v * b.v, Frac))

\* x < 0 (false for a NaN)
f_lt0(a) == a.cls # "nan" /\ a.v < 0

\* const float dt = 0.01f, held as 1/dt
inv_dt == 100

\* x * dt and x / dt for a float x
f_mul_dt(a, r) == IF a.cls = "fin" THEN Fin(TruncDiv(a.v, r)) ELSE a

f_div_dt(a, r) == IF a.cls = "fin" THEN Fin(a.v * r) ELSE a

\* (uint)x for a float x >= 0: truncation; every finite value of the model
\* is in the range of uint; for a NaN or an infinity the conversion is
\* undefined behaviour, which the hardware and the float routines resolve to
\* 0 or to the largest value (INT_MAX stands for it: it is clamped alike)
float_to_uint(a) ==
  IF a.cls = "fin" THEN {a.v \div Frac} ELSE {0, INT_MAX}

(***************************************************************************)
(* The feedback variant: fgets and sscanf                                  *)
(***************************************************************************)
\* sizeof(buffer)
BUFFER_SIZE == 64

\* the largest decimal exponent of a finite float (FLT_MAX_10_EXP)
FLT_MAX_10_EXP == 38

RECURSIVE Pow10(_)
Pow10(e) == IF e = 0 THEN 1 ELSE 10 * Pow10(e - 1)

\* m * 10^e (or m / 10^e) as a float: beyond the range of float the value
\* stored is an infinity; below the resolution of the model it is 0
Scale10(m, e, eneg) ==
  IF m = 0 THEN Fin(0)
  ELSE IF eneg THEN (IF e > 9 THEN Fin(0) ELSE Fin(TruncDiv(m, Pow10(e))))
  ELSE IF e > FLT_MAX_10_EXP /\ (m >= Frac \/ -m >= Frac) THEN Inf(Sgn(m))
  ELSE Fin(m * Pow10(e))

\* the exponent part of a number: e or E, an optional sign, digits
ExponentDigits(r) ==
  DigitPrefix(IF Len(r) >= 2 /\ r[2] \in {"+", "-"}
                THEN Drop(r, 2)
                ELSE Drop(r, 1))

ExponentLen(r) ==
  IF Len(r) >= 2 /\ r[2] \in {"+", "-"}
    THEN 2 + Len(ExponentDigits(r))
    ELSE 1 + Len(ExponentDigits(r))

HasExponent(r) ==
  r # <<>> /\ Head(r) \in {"e", "E"} /\ ExponentDigits(r) # <<>>

\* the float of mantissa m (a result of ScanFloat) and the exponent part
\* that follows it, if any
WithExponent(m) ==
  IF ~m.ok THEN [ok |-> FALSE, val |-> Fin(0), rest |-> m.rest]
  ELSE IF ~HasExponent(m.rest)
    THEN [ok |-> TRUE, val |-> Fin(m.val), rest |-> m.rest]
  ELSE [ok   |-> TRUE,
        val  |-> Scale10(m.val, DecValue(ExponentDigits(m.rest)),
                         m.rest[2] = "-"),
        rest |-> Drop(m.rest, ExponentLen(m.rest))]

\* one %f conversion with the exponent form
ScanFloatExp(s) == WithExponent(ScanFloat(s))

TWIST_FORMAT ==
  <<"l", "i", "n", "e", "a", "r", ":", " ", "x", ":", " ", "%", "f",
    ",", " ", "y", ":", " ", "%", "*", "f", ",", " ", "z", ":", " ",
    "%", "*", "f", " ", "a", "n", "g", "u", "l", "a", "r", ":", " ",
    "x", ":", " ", "%", "*", "f", ",", " ", "y", ":", " ", "%", "*",
    "f", ",", " ", "z", ":", " ", "%", "f">>

\* sscanf of s under the directives of fmt: white space matches any white
\* space, %f converts and stores, %*f converts and stores nothing, any other
\* character matches itself; the result is the sequence of values stored
\* (a bound variable holds the input left after a directive)
RECURSIVE vsscanf(_, _, _)
vsscanf(s, fmt, stored) ==
  IF fmt = <<>> THEN stored
  ELSE IF Head(fmt) = " "
    THEN CHOOSE v \in {vsscanf(t, Tail(fmt), stored) : t \in {SkipSpace(s)}} :
           TRUE
  ELSE IF Head(fmt) = "%"
    THEN LET suppress == fmt[2] = "*"
         IN  CHOOSE v \in
               { IF ~r.ok THEN stored
                 ELSE vsscanf(r.rest, Drop(fmt, IF suppress THEN 3 ELSE 2),
                              IF suppress THEN stored
                                          ELSE Append(stored, r.val)) :
                 r \in {ScanFloatExp(s)} } : TRUE
  ELSE IF s # <<>> /\ Head(s) = Head(fmt)
    THEN vsscanf(Tail(s), Tail(fmt), stored)
  ELSE stored

\* the return value of sscanf and the two floats it stores (initialised 0.0f)
sscanf_twist(s) ==
  LET stored == vsscanf(s, TWIST_FORMAT, <<>>)
  IN  [n   |-> Len(stored),
       lin |-> IF Len(stored) >= 1 THEN stored[1] ELSE Fin(0),
       ang |-> IF Len(stored) >= 2 THEN stored[2] ELSE Fin(0)]

\* fgets(buffer, size, stdin) returns once stdin holds a newline or
\* size - 1 characters
fgets_ready(s, size) ==
  \/ Len(s) >= size - 1
  \/ \E i \in 1..Len(s) : s[i] = LF

\* the string it stores: up to and including the first newline, at most
\* size - 1 characters
fgets(s, size) ==
  LET ends == {i \in 1..(size - 1) : i <= Len(s) /\ s[i] = LF}
  IN  IF ends = {} THEN SubSeq(s, 1, size - 1)
      ELSE SubSeq(s, 1, CHOOSE i \in ends : \A j \in ends : i <= j)

(***************************************************************************)
(* The feedback variant: the lines the host writes                         *)
(***************************************************************************)
TWIST_HEAD ==
  <<"l", "i", "n", "e", "a", "r", ":", " ", "x", ":", " ">>

TWIST_MIDDLE ==
  <<",", " ", "y", ":", " ", "0", ",", " ", "z", ":", " ", "0", " ",
    "a", "n", "g", "u", "l", "a", "r", ":", " ", "x", ":", " ", "0",
    ",", " ", "y", ":", " ", "0", ",", " ", "z", ":", " ">>

\* "linear: x: <lin>, y: 0, z: 0 angular: x: 0, y: 0, z: <ang>"
Twist(lin, ang) == TWIST_HEAD \o lin \o TWIST_MIDDLE \o ang

Twist_50_0 == Twist(<<"5", "0">>, <<"0">>)

Twist_0_50 == Twist(<<"0">>, <<"5", "0">>)

Twist_m90_20 == Twist(<<"-", "9", "0">>, <<"2", "0">>)

Twist_quarter == Twist(<<"0", ".", "2", "5">>, <<"0">>)

Twist_2000_0 == Twist(<<"2", "0", "0", "0">>, <<"0">>)

\* a linear value beyond the range of float
Twist_1e39_0 == Twist(<<"1", "e", "3", "9">>, <<"0">>)

\* a line of 64 characters: longer than fgets stores at once
Twist_ros ==
  <<"l", "i", "n", "e", "a", "r", ":", " ", "x", ":", " ", "5", "0",
    ".", "0", ",", " ", "y", ":", " ", "0", ".", "0", ",", " ", "z",
    ":", " ", "0", ".", "0", " ", "a", "n", "g", "u", "l", "a", "r",
    ":", " ", "x", ":", " ", "0", ".", "0", ",", " ", "y", ":", " ",
    "0", ".", "0", ",", " ", "z", ":", " ", "1", "2", ".", "5">>

\* a line that ends after the second field
Twist_short ==
  <<"l", "i", "n", "e", "a", "r", ":", " ", "x", ":", " ", "5", ",",
    " ", "y", ":", " ", "0">>


\* the lines the host may write (each is followed by a newline)
TwistLines ==
  { Twist_50_0, Twist_0_50, Twist_m90_20, Twist_quarter, Twist_2000_0,
    Twist_1e39_0, Twist_ros, Twist_short }

(***************************************************************************)
(* The feedback variant: pid_update and main                               *)
(***************************************************************************)
\* the level pwm_set_wrap sets and the clamp compares with
PID_PWM_WRAP == 1000

\* PID pid_right / pid_left as initialised
PID_initial ==
  [Kp |-> Fin(1 * Frac), Ki |-> Fin(0), Kd |-> Fin(0),
   prev_error |-> Fin(0), integral |-> Fin(0)]

\* the output pid_update returns and the record it leaves
pid_update(pid, setpoint, measurement, r, invalid) ==
  LET error      == f_sub(setpoint, measurement, invalid)
      integral   == f_add(pid.integral, f_mul_dt(error, r), invalid)
      derivative == f_div_dt(f_sub(error, pid.prev_error, invalid), r)
      output     == f_add(f_add(f_mul(pid.Kp, error, invalid),
                                f_mul(pid.Ki, integral, invalid), invalid),
                          f_mul(pid.Kd, derivative, invalid), invalid)
  IN  [output |-> output,
       pid    |-> [pid EXCEPT !.integral = integral, !.prev_error = error]]

\* (uint)(output < 0 ? -output : output), clamped to the wrap limit
pwm_levels(output) ==
  { IF u > PID_PWM_WRAP THEN PID_PWM_WRAP ELSE u :
      u \in float_to_uint(IF f_lt0(output) THEN f_neg(output) ELSE output) }

\* gpio_put(DIR_PIN, output < 0 ? 1 : 0)
dir_level(output) == IF f_lt0(output) THEN 1 ELSE 0

NothingScanned == [n |-> 0, lin |-> Fin(0), ang |-> Fin(0)]

pid_init ==
  /\ stdin = <<>>
  /\ buffer = <<>>
  /\ pid_right = PID_initial
  /\ pid_left = PID_initial
  /\ pwm_right = 0
  /\ pwm_left = 0
  /\ right_dir_pin = 0
  /\ left_dir_pin = 0
  /\ scanned = NothingScanned
  /\ lines_sent = 0

\* the host writes one line and its newline
HostWrite ==
  /\ stdin = <<>>
  /\ lines_sent < MaxLines
  /\ \E m \in TwistLines : stdin' = Append(m, LF)
  /\ lines_sent' = lines_sent + 1
  /\ UNCHANGED <<buffer, pid_right, pid_left, pwm_right, pwm_left,
                 right_dir_pin, left_dir_pin, scanned>>
  /\ UNCHANGED vars

\* one loop iteration: fgets returns a string that sscanf accepts
LoopAccepted ==
  /\ fgets_ready(stdin, BUFFER_SIZE)
  /\ \E line \in {fgets(stdin, BUFFER_SIZE)} : \E s \in {sscanf_twist(line)} :
         /\ s.n = 2
         /\ stdin' = Drop(stdin, Len(line))
         /\ buffer' = line
         /\ scanned' = s
         /\ \E invalid \in Invalid :
              LET setpoint_right == f_add(s.lin, s.ang, invalid)
                  setpoint_left  == f_sub(s.lin, s.ang, invalid)
                  right == pid_update(pid_right, setpoint_right, Fin(0),
                                      inv_dt, invalid)
                  left  == pid_update(pid_left, setpoint_left, Fin(0),
                                      inv_dt, invalid)
              IN  /\ pid_right' = right.pid
                  /\ pid_left' = left.pid
                  /\ pwm_right' \in pwm_levels(right.output)
                  /\ pwm_left' \in pwm_levels(left.output)
                  /\ right_dir_pin' = dir_level(right.output)
                  /\ left_dir_pin' = dir_level(left.output)
  /\ UNCHANGED lines_sent
  /\ UNCHANGED vars

\* one loop iteration: fgets returns a string that sscanf does not accept
LoopRejected ==
  /\ fgets_ready(stdin, BUFFER_SIZE)
  /\ \E line \in {fgets(stdin, BUFFER_SIZE)} : \E s \in {sscanf_twist(line)} :
         /\ s.n # 2
         /\ stdin' = Drop(stdin, Len(line))
         /\ buffer' = line
         /\ scanned' = s
  /\ UNCHANGED <<pid_right, pid_left, pwm_right, pwm_left, right_dir_pin,
                 left_dir_pin, lines_sent>>
  /\ UNCHANGED vars

(***************************************************************************)
(* Initial state and specifications                                        *)
(***************************************************************************)
Init ==
  /\ pc = "poll"
  /\ now = 0
  /\ rx = <<>>
  /\ serial_cmd_buf = <<>>
  /\ buf_index = 0
  /\ last_heartbeat = 0
  /\ heartbeat_warned = FALSE
  /\ left_duty = 0
  /\ right_duty = 0
  /\ left_dir = 0
  /\ right_dir = 0
  /\ out = "none"
  /\ polled = "none"
  /\ run = <<>>
  /\ overflowed = FALSE
  /\ handed = NoLine
  /\ t_accepted = 0
  /\ outage_diagnosed = FALSE
  /\ pid_init

Next ==
  \/ HostSend
  \/ PollTimeout
  \/ PollLineComplete
  \/ PollBlankLine
  \/ PollAppend
  \/ PollOverflow
  \/ HeartbeatCheck

Spec == Init /\ [][Next]_all_vars

NextPID ==
  \/ HostWrite
  \/ LoopAccepted
  \/ LoopRejected

SpecPID == Init /\ [][NextPID]_all_vars

(***************************************************************************)
(* Properties                                                              *)
(***************************************************************************)
\* the step of an iteration in which process_command runs
LineProcessed == pc = "poll" /\ pc' = "check" /\ handed'.some

Stopped == left_duty = 0 /\ right_duty = 0

\* C1 (watchdog trip): with T0 the time of boot or of the latest accepted
\* command, every iteration that ends with a clock reading beyond
\* T0 + TIMEOUT ends with both duties 0, whatever non-accepted input arrived
\* since T0.
C1_WatchdogTrip ==
  (pc = "poll" /\ now - t_accepted > HEARTBEAT_TIMEOUT_US) => Stopped

\* C2 (parse error): processing a line with the prefix "move " whose payload
\* has fewer than two numbers changes no duty and no direction and leaves
\* last_heartbeat as it was.
C2_ParseErrorNoEffect ==
  [][(LineProcessed /\ IsParseError(handed'.line))
       => (actuators' = actuators /\ last_heartbeat' = last_heartbeat)]_vars

\* C3 (once per outage): the "Heartbeat missing" diagnostic is printed at
\* most once between two consecutive accepted commands.
C3_OncePerOutage ==
  [][(pc = "check" /\ pc' = "poll" /\ out' = "hb_missing")
       => ~outage_diagnosed]_vars

\* C4 (buffer overflow recovery): the terminator that ends a run of
\* LINE_MAX + 5 non-terminator bytes hands no line to process_command; an
\* overflow was reported during the run and the buffer is empty afterwards.
C4_OverflowRecovery ==
  [][(/\ pc = "poll" /\ pc' = "check"
      /\ rx # <<>> /\ Head(rx) \in Terminators /\ rx' = Tail(rx)
      /\ Len(run) = LINE_MAX + OverflowExtra)
       => (~handed'.some /\ overflowed /\ buf_index' = 0)]_vars

\* C5 (line assembler guarantee): every line handed to process_command is
\* the whole run of non-terminator input bytes that its terminator ends, is
\* at most LINE_MAX long and holds no terminator.
C5_LineIsMaximalRun ==
  handed.some =>
    /\ handed.line = handed.run
    /\ Len(handed.line) <= LINE_MAX
    /\ \A i \in 1..Len(handed.line) : handed.line[i] \notin Terminators

\* C6 (unknown command): processing a line that is neither "heartbeat" nor
\* prefixed by "move " leaves last_heartbeat, heartbeat_warned, both duties
\* and both directions as they were.
C6_UnknownNoStateChange ==
  [][(LineProcessed /\ IsUnknown(handed'.line))
       => /\ last_heartbeat' = last_heartbeat
          /\ heartbeat_warned' = heartbeat_warned
          /\ actuators' = actuators]_vars

\* C7 (watchdog recovery): when the line processed in an iteration is an
\* accepted command and heartbeat_warned was set before it, then from its
\* processing to the end of that iteration heartbeat_warned is clear and
\* last_heartbeat is the time of the command, and for a move the directions
\* and duties computed from it are in effect (the heartbeat check of the
\* iteration does not zero them).
C7_WatchdogRecovery ==
  (handed.some /\ handed.was_warned /\ Accepted(handed.line)) =>
    /\ ~heartbeat_warned
    /\ last_heartbeat = handed.t
    /\ IsMove(handed.line) =>
         LET r == sscanf_move(Drop(handed.line, 5))
         IN  /\ left_dir = track_dir(r.linear - r.angular)
             /\ right_dir = track_dir(r.linear + r.angular)
             /\ left_duty \in track_duty(r.linear - r.angular)
             /\ right_duty \in track_duty(r.linear + r.angular)

\* a move that follows a trip drives the tracks at the end of its iteration
C7_Witness ==
  /\ pc = "poll"
  /\ handed.some /\ handed.was_warned /\ IsMove(handed.line)
  /\ left_duty > 0 /\ right_duty > 0

Magnitude(mix) == IF mix < 0 THEN -mix ELSE mix

\* duty = clamp(|mix| * 10, 0, 1000) in exact arithmetic
ExactDuty(duty, mix) ==
  IF Magnitude(mix) \div Frac >= PWM_WRAP_VALUE \div DUTY_SCALE
    THEN duty = PWM_WRAP_VALUE
    ELSE duty * Frac = Magnitude(mix) * DUTY_SCALE

\* duty = clamp(trunc(|mix| * 10), 0, 1000), where a product beyond the
\* range of int converts to an unspecified int and so clamps to 0 or 1000
TruncatedDuty(duty, mix) ==
  IF Magnitude(mix) \div Frac > INT_MAX \div DUTY_SCALE
    THEN duty \in {0, PWM_WRAP_VALUE}
    ELSE IF (Magnitude(mix) * DUTY_SCALE) \div Frac > PWM_WRAP_VALUE
      THEN duty = PWM_WRAP_VALUE
      ELSE duty = (Magnitude(mix) * DUTY_SCALE) \div Frac

\* the state right after process_command applied an accepted move
MoveApplied == pc = "check" /\ handed.some /\ IsMove(handed.line)

C10_HeartbeatFrame ==
  [][(LineProcessed /\ IsHeartbeat(handed'.line))
       => /\ actuators' = actuators
          /\ last_heartbeat' = now'
          /\ ~heartbeat_warned']_vars

\* a heartbeat was processed while the tracks were driven by an earlier move
C10_Witness ==
  /\ handed.some /\ IsHeartbeat(handed.line)
  /\ left_duty > 0 /\ right_duty > 0 /\ left_dir = 1

\* everything but the bytes in flight: the state the loop owns, and the clock
loop_state ==
  <<pc, now, serial_cmd_buf, buf_index, last_heartbeat, heartbeat_warned,
    actuators, out, polled, run, overflowed, handed, t_accepted,
    outage_diagnosed>>

\* C11 (loop ordering): every step is the host writing to the link, or the
\* poll step of an iteration, which takes at most one byte, is the only place
\* where a line is processed and leads to the heartbeat check, or the
\* heartbeat check, which takes no byte, processes no line and ends the
\* iteration; the poll step can always be taken when no byte is available.
C11_LoopOrdering ==
  [][/\ \/ UNCHANGED loop_state
        \/ /\ pc = "poll" /\ pc' = "check"
           /\ rx' = rx \/ (rx # <<>> /\ rx' = Tail(rx))
        \/ /\ pc = "check" /\ pc' = "poll"
           /\ UNCHANGED <<rx, handed, last_heartbeat, serial_cmd_buf>>
     /\ pc = "poll" => ENABLED PollTimeout
     /\ pc = "check" => ENABLED HeartbeatCheck]_vars

\* the watchdog fired at the end of an iteration although the link is silent
C11_Witness ==
  /\ pc = "poll" /\ out = "hb_missing"
  /\ rx = <<>> /\ run = <<>> /\ ~handed.some

\* the heartbeat check of this step fired
WatchdogTrip == pc = "check" /\ pc' = "poll" /\ out' = "hb_missing"

\* C12 (two writers of the actuators): a step changes a duty or a direction
\* only if it applies an accepted move or is a watchdog trip.
C12_ActuatorWriters ==
  [][actuators' # actuators
       => \/ LineProcessed /\ IsMove(handed'.line)
          \/ WatchdogTrip]_vars

\* a malformed move was processed while the tracks were driven
C12_Witness ==
  /\ pc = "check" /\ handed.some /\ IsParseError(handed.line)
  /\ left_duty > 0 /\ right_duty > 0

\* C13 (line buffer bound): buf_index stays within 0..63, so the NUL written
\* at serial_cmd_buf[buf_index] falls inside the 64-byte buffer; the byte
\* that arrives with 63 bytes stored is reported as an overflow and dropped,
\* the buffer is empty afterwards and the iteration goes on to its check.
C13_BufferBound ==
  /\ buf_index \in 0..(SERIAL_CMD_BUF_SIZE - 1)
  /\ buf_index = Len(serial_cmd_buf)
  /\ out = "overflow" =>
       /\ pc = "check"
       /\ buf_index = 0
       /\ ~handed.some
       /\ Len(run) > SERIAL_CMD_BUF_SIZE - 1

\* the 64th byte of a line was just dropped
C13_Witness ==
  /\ out = "overflow" /\ buf_index = 0 /\ pc = "check"
  /\ Len(run) = SERIAL_CMD_BUF_SIZE

\* C14 (dead man's switch): at the end of every iteration, if the clock
\* reading of its heartbeat check exceeds last_heartbeat by more than the
\* timeout, both duties are 0.
C14_DeadMansSwitch ==
  (pc = "poll" /\ now - last_heartbeat > HEARTBEAT_TIMEOUT_US) => Stopped

\* the heartbeat went stale after a move had driven the tracks forward
C14_Witness ==
  /\ pc = "poll" /\ now - last_heartbeat > HEARTBEAT_TIMEOUT_US
  /\ last_heartbeat > 0 /\ left_dir = 1 /\ Stopped

\* C15 (a trip changes only magnitude): the step in which the watchdog fires
\* sets both duties to 0 and heartbeat_warned, and leaves both direction
\* pins, last_heartbeat and the line buffer as they were.
C15_TripFrame ==
  [][WatchdogTrip
       => /\ left_duty' = 0 /\ right_duty' = 0
          /\ heartbeat_warned'
          /\ UNCHANGED <<left_dir, right_dir, last_heartbeat, serial_cmd_buf,
                         buf_index>>]_vars

\* the watchdog just fired on tracks that a move had set forward, with a
\* partial line in the buffer
C15_Witness ==
  /\ pc = "poll" /\ out = "hb_missing"
  /\ left_dir = 1 /\ right_dir = 1 /\ buf_index > 0

\* C16 (strict timeout threshold): the heartbeat check fires only when its
\* clock reading exceeds last_heartbeat by strictly more than the timeout and
\* heartbeat_warned is clear; otherwise it changes neither duty nor
\* heartbeat_warned and prints nothing.
C16_StrictThreshold ==
  [][(pc = "check" /\ pc' = "poll")
       => /\ out' = "hb_missing" =>
               /\ now' - last_heartbeat > HEARTBEAT_TIMEOUT_US
               /\ ~heartbeat_warned
          /\ (now' - last_heartbeat <= HEARTBEAT_TIMEOUT_US \/ heartbeat_warned) =>
               /\ out' = "none"
               /\ UNCHANGED <<left_duty, right_duty, heartbeat_warned>>]_vars

\* an iteration ended exactly TIMEOUT after the latest refresh: the tracks
\* are still driven and no warning has been given
C16_Witness ==
  /\ pc = "poll" /\ now - last_heartbeat = HEARTBEAT_TIMEOUT_US
  /\ ~heartbeat_warned /\ out = "none"
  /\ left_duty > 0 /\ right_duty > 0

\* C17 (blank lines are no-ops): the poll step that takes a terminator while
\* the buffer is empty hands no line to process_command, prints nothing and
\* leaves the buffer, last_heartbeat, heartbeat_warned, the duties and the
\* directions as they were.
C17_BlankLineNoOp ==
  [][(/\ pc = "poll" /\ pc' = "check"
      /\ rx # <<>> /\ Head(rx) \in Terminators /\ rx' = Tail(rx)
      /\ buf_index = 0)
       => /\ ~handed'.some
          /\ out' = "none"
          /\ UNCHANGED <<serial_cmd_buf, buf_index, last_heartbeat,
                         heartbeat_warned, actuators>>]_vars

\* a blank line was taken after a trip and the warning is still set
C17_Witness ==
  /\ pc = "check" /\ polled \in Terminators /\ ~handed.some
  /\ heartbeat_warned /\ buf_index = 0

\* C18 (warned implies stopped): in every reachable state, at the iteration
\* boundaries in particular, heartbeat_warned set means both duties are 0.
C18_WarnedImpliesStopped == heartbeat_warned => Stopped

\* the warning is set at an iteration boundary after a move had driven the
\* tracks: they are stopped, their direction pins still forward
C18_Witness ==
  /\ pc = "poll" /\ heartbeat_warned /\ Stopped
  /\ left_dir = 1 /\ t_accepted > 0

\* a loop iteration of the feedback variant: fgets has taken a string
PidIteration == Len(stdin') < Len(stdin)

\* the values the command just scanned asks for: lin + ang and lin - ang
setpoint_right_of(s) == f_add(s.lin, s.ang, NaN)

setpoint_left_of(s) == f_sub(s.lin, s.ang, NaN)

\* level = min(|mix|, 1000), exactly
StatedLevel(level, mix) ==
  CASE mix.cls = "fin" ->
         IF Magnitude(mix.v) >= PID_PWM_WRAP * Frac
           THEN level = PID_PWM_WRAP
           ELSE level * Frac = Magnitude(mix.v)
    [] mix.cls = "inf" -> level = PID_PWM_WRAP
    [] OTHER -> TRUE

\* level = min(|mix|, 1000), |mix| cut to its integer part
TruncatedLevel(level, mix) ==
  CASE mix.cls = "fin" ->
         IF Magnitude(mix.v) >= PID_PWM_WRAP * Frac
           THEN level = PID_PWM_WRAP
           ELSE level = Magnitude(mix.v) \div Frac
    [] mix.cls = "inf" -> level = PID_PWM_WRAP
    [] OTHER -> TRUE

\* C19 (the feedback variant is open-loop): an accepted command sets the
\* right level to min(|lin + ang|, 1000), the left level to
\* min(|lin - ang|, 1000) and each direction pin to 1 iff its mix value is
\* negative, whatever commands came before; a line that does not parse
\* changes no output.
C19_OpenLoop ==
  [][PidIteration =>
       IF scanned'.n = 2
         THEN /\ StatedLevel(pwm_right', setpoint_right_of(scanned'))
              /\ StatedLevel(pwm_left', setpoint_left_of(scanned'))
              /\ right_dir_pin' = 1 <=> f_lt0(setpoint_right_of(scanned'))
              /\ left_dir_pin' = 1 <=> f_lt0(setpoint_left_of(scanned'))
         ELSE UNCHANGED <<pwm_right, pwm_left, right_dir_pin, left_dir_pin>>
    ]_pid_vars

\* the same with each level read as the integer part of the magnitude
C19_OpenLoopTruncated ==
  [][PidIteration =>
       IF scanned'.n = 2
         THEN /\ TruncatedLevel(pwm_right', setpoint_right_of(scanned'))
              /\ TruncatedLevel(pwm_left', setpoint_left_of(scanned'))
              /\ right_dir_pin' = 1 <=> f_lt0(setpoint_right_of(scanned'))
              /\ left_dir_pin' = 1 <=> f_lt0(setpoint_left_of(scanned'))
         ELSE UNCHANGED <<pwm_right, pwm_left, right_dir_pin, left_dir_pin>>
    ]_pid_vars

====
